---- MODULE Spec2Model ----
(***************************************************************************)
(* Model of the paper search pipeline of solara-paper-finder:              *)
(*   search_engine.py : Paper, RankingCriteria,                            *)
(*                      get_citation_count_from_semantic_scholar,          *)
(*                      ArxivSearchEngine.search, SearchEngineFactory,     *)
(*                      search_papers                                      *)
(*   app.py           : the reactive search state and perform_search       *)
(*                                                                         *)
(* Python strings that the code takes apart (e-mail domains, arXiv         *)
(* identifiers) are sequences of one-character strings; strings the code   *)
(* only stores or compares are TLA+ strings.  Optional values are          *)
(* sequences of length at most one: None is << >>, a value x is << x >>.   *)
(* A float is an exact rational [num, den]; binary64 rounding is not       *)
(* modelled.                                                               *)
(***************************************************************************)
EXTENDS Integers, Sequences, FiniteSets, TLC

VARIABLES
    \* ---- app.py: module-level reactive state ----
    search_query, selected_database, search_results, ranking_criteria,
    is_searching, search_error,
    \* ---- one search_papers call in progress (or the last one finished) ----
    pc,            \* "idle" | "loop"
    caller,        \* "none" | "direct" | "ui"
    args,          \* the arguments search_papers was called with
    engine_args,   \* what engine.search received (None: never invoked)
    primary_query, \* what arxiv.Search was built with (None: no primary call)
    criteria,      \* the RankingCriteria local of search()
    papers,        \* the papers local of search()
    raws,          \* raw results the primary source has yielded so far
    enrich_log,    \* one entry per enrichment call: id queried, network outcome, return
    events,        \* order of enrichment calls and sleeps inside search()
    engine_ret,    \* what engine.search returned or raised (None: not yet)
    outcome,       \* what search_papers delivered to its caller (None: not yet)
    \* ---- one call of get_citation_count_from_semantic_scholar on its own ----
    enr_pc, enr_id, enr_net, enr_ret,
    enr_queried,   \* the id put into the request URL (None: no request yet)
    \* ---- calls of search_papers running at the same time ----
    threads,       \* per thread: the frame of its search_papers call
    buffers,       \* the result lists allocated by the calls
    \* ---- one construction of a Paper on its own ----
    ctor_pc, ctor_in, ctor_out

vars == << search_query, selected_database, search_results, ranking_criteria,
           is_searching, search_error, pc, caller, args, engine_args,
           primary_query, criteria, papers, raws, enrich_log, events,
           engine_ret, outcome, enr_pc, enr_id, enr_net, enr_ret, enr_queried,
           threads, buffers, ctor_pc, ctor_in, ctor_out >>

uiVars == << search_query, selected_database, search_results, ranking_criteria,
             is_searching, search_error >>

callVars == << pc, caller, args, engine_args, primary_query, criteria, papers,
               raws, enrich_log, events, engine_ret, outcome >>

enrVars == << enr_pc, enr_id, enr_net, enr_ret, enr_queried >>

conVars == << threads, buffers >>

ctorVars == << ctor_pc, ctor_in, ctor_out >>

\* what the actions of one search_papers call and of the page leave alone
auxVars == << enrVars, conVars, ctorVars >>

-----------------------------------------------------------------------------
(* Bounds of the model *)

\* largest max_results a direct caller passes, and the most results the
\* primary source yields in one search
MaxResults == 2
\* largest max_results of the relevance specification
MaxRelResults == 6
\* largest citationCount the enrichment source reports
MaxCite == 2

-----------------------------------------------------------------------------
(* Optional values *)

None == << >>
Some(x) == << x >>
IsNone(o) == o = << >>
IsSome(o) == o # << >>
Get(o) == o[1]

-----------------------------------------------------------------------------
(* Python str operations on sequences of characters *)

LowerLetters == <<"a","b","c","d","e","f","g","h","i","j","k","l","m",
                  "n","o","p","q","r","s","t","u","v","w","x","y","z">>
UpperLetters == <<"A","B","C","D","E","F","G","H","I","J","K","L","M",
                  "N","O","P","Q","R","S","T","U","V","W","X","Y","Z">>

IsLower(c) == \E i \in 1..26 : LowerLetters[i] = c
IsUpper(c) == \E i \in 1..26 : UpperLetters[i] = c
IsLetter(c) == IsLower(c) \/ IsUpper(c)

\* str.upper() / str.lower() on one character
UpperChar(c) ==
    IF IsLower(c) THEN UpperLetters[CHOOSE i \in 1..26 : LowerLetters[i] = c] ELSE c
LowerChar(c) ==
    IF IsUpper(c) THEN LowerLetters[CHOOSE i \in 1..26 : UpperLetters[i] = c] ELSE c

\* str.upper()
Upper(s) == [i \in 1..Len(s) |-> UpperChar(s[i])]

\* str.title(): a letter that follows a non-letter (or starts the string) is
\* upper-cased, every other letter lower-cased
Title(s) ==
    [i \in 1..Len(s) |->
        IF i = 1 \/ ~IsLetter(s[i-1]) THEN UpperChar(s[i]) ELSE LowerChar(s[i])]

\* str.replace(old, new) for single characters
Replace(s, old, new) == [i \in 1..Len(s) |-> IF s[i] = old THEN new ELSE s[i]]

\* sub in s
Contains(s, sub) ==
    \E i \in 1..(Len(s) - Len(sub) + 1) : SubSeq(s, i, i + Len(sub) - 1) = sub

HasChar(s, c) == \E i \in 1..Len(s) : s[i] = c

\* s.split(c)[0]
SplitFirst(s, c) ==
    IF HasChar(s, c)
    THEN SubSeq(s, 1, (CHOOSE i \in 1..Len(s) :
                          s[i] = c /\ \A j \in 1..(i-1) : s[j] # c) - 1)
    ELSE s

\* s.split(c)[-1]
SplitLast(s, c) ==
    IF HasChar(s, c)
    THEN SubSeq(s, (CHOOSE i \in 1..Len(s) :
                       s[i] = c /\ \A j \in (i+1)..Len(s) : s[j] # c) + 1, Len(s))
    ELSE s

\* x in list
InSeq(x, s) == \E i \in 1..Len(s) : s[i] = x

NoDuplicates(s) == \A i, j \in 1..Len(s) : i # j => s[i] # s[j]

\* list[:n]
Take(s, n) == SubSeq(s, 1, IF Len(s) < n THEN Len(s) ELSE n)

-----------------------------------------------------------------------------
(* Exact rationals standing for Python floats *)

Rat(n, d) == [num |-> n, den |-> d]
\* int / int (true division), d > 0
RatDiv(n, d) == Rat(n, d)
\* a - b
RatSub(a, b) == Rat(a.num * b.den - b.num * a.den, a.den * b.den)
RatEq(a, b) == a.num * b.den = b.num * a.den
RatLeq(a, b) == a.num * b.den <= b.num * a.den

-----------------------------------------------------------------------------
(* Sample inputs: what the two external services can hand to the code *)

Str_arxiv_org == <<"a","r","x","i","v",".","o","r","g">>
Str_edu == <<"e","d","u">>

\* e-mail domains, as captured by the group of email_pattern
Dom_mit_edu == <<"m","i","t",".","e","d","u">>
Dom_mit_edu_cn == <<"m","i","t",".","e","d","u",".","c","n">>
Dom_cs_ai_edu == <<"c","s","-","a","i",".","e","d","u">>
Dom_ibm_com == <<"i","b","m",".","c","o","m">>
Dom_eth_ch == <<"e","t","h",".","c","h">>

\* affiliation attributes of raw author records
Aff_Mit == <<"M","i","t">>
Aff_Oxford == <<"O","x","f","o","r","d">>

\* arXiv identifiers
Id_url_v2 == <<"h","t","t","p",":","/","/","a","r","x","i","v",".","o","r","g","/","a","b","s","/","2","3","0","1",".","0","1","v","2">>
Id_url_v1 == <<"h","t","t","p",":","/","/","a","r","x","i","v",".","o","r","g","/","a","b","s","/","2","3","0","2",".","0","2","v","1">>
Id_url_plain == <<"h","t","t","p",":","/","/","a","r","x","i","v",".","o","r","g","/","a","b","s","/","2","3","0","3",".","0","3">>
Id_bare == <<"2","3","0","1",".","0","1">>
Id_bare_v1 == <<"2","3","0","1",".","0","1","v","1">>
Id_old_url == <<"h","t","t","p",":","/","/","a","r","x","i","v",".","o","r","g","/","a","b","s","/","s","o","l","v","-","i","n","t","/","9","9","0","1","v","1">>
Id_old_bare == <<"h","e","p","-","t","h","/","9","9","0","1","v","2">>

Id_solv_bare == <<"s","o","l","v","-","i","n","t","/","9","9","0","1">>
Id_solv_bare_v1 == <<"s","o","l","v","-","i","n","t","/","9","9","0","1","v","1">>

Identifiers ==
    { Id_url_v2, Id_url_v1, Id_url_plain, Id_bare, Id_bare_v1, Id_old_url, Id_old_bare,
      Id_solv_bare, Id_solv_bare_v1 }

\* A raw result of the primary source.  comment is the list of domains that
\* re.findall(email_pattern, result.comment) captures (empty when the result
\* has no comment); an author's affiliation is None when the record has no
\* such attribute.
Author(n, a) == [name |-> n, affiliation |-> a]

RawA == [ entry_id |-> Id_url_v2, title |-> "Paper A",
          comment |-> << Dom_mit_edu, Dom_mit_edu_cn >>,
          authors |-> << Author("Ada", None) >> ]
RawB == [ entry_id |-> Id_url_v1, title |-> "Paper B",
          comment |-> << Dom_cs_ai_edu, Dom_ibm_com, Dom_mit_edu, Dom_ibm_com, Dom_eth_ch >>,
          authors |-> << Author("Bob", Some(Aff_Mit)), Author("Bea", Some(Aff_Oxford)) >> ]
RawC == [ entry_id |-> Id_url_plain, title |-> "Paper C",
          comment |-> << >>,
          authors |-> << Author("Cy", Some(Aff_Oxford)), Author("Cat", None),
                         Author("Col", Some(Aff_Oxford)) >> ]

RawResults == { RawA, RawB, RawC }

\* What one requests.get can end in.
Response(st, b, f, c) ==
    [ kind |-> "response", status |-> st, body |-> b, field |-> f, count |-> c, exc |-> "" ]
NetException(e) ==
    [ kind |-> "exception", status |-> 0, body |-> "", field |-> "", count |-> 0, exc |-> e ]

\* 200 with a JSON object holding an integer citationCount
NetFound(c) == Response(200, "object", "int", c)
\* 200 with a JSON object without the key, and with the key set to null
NetFoundAbsent == Response(200, "object", "absent", 0)
NetFoundNull == Response(200, "object", "null", 0)
\* 200 whose body is not JSON, and whose JSON is not an object
NetNotJson == Response(200, "not_json", "", 0)
NetJsonArray == Response(200, "array", "", 0)
NetNotFound == Response(404, "", "", 0)
NetRateLimited == Response(429, "", "", 0)
NetServerError == Response(500, "", "", 0)
NetTimeout == NetException("Timeout")
NetConnectionError == NetException("ConnectionError")

NetOutcomes ==
    { NetFound(c) : c \in 0..MaxCite } \cup
    { NetFoundAbsent, NetFoundNull, NetNotJson, NetJsonArray, NetNotFound,
      NetRateLimited, NetServerError, NetTimeout, NetConnectionError }

\* the outcomes the search specifications draw from
NetSearch ==
    { NetFound(c) : c \in 1..MaxCite } \cup { NetFoundAbsent, NetNotFound, NetTimeout }

-----------------------------------------------------------------------------
(* get_citation_count_from_semantic_scholar *)

Returned(v) == [ raised |-> FALSE, exc |-> "", value |-> v ]
Raised(e) == [ raised |-> TRUE, exc |-> e, value |-> None ]

\* lines 85-89: the id that is put into the request URL
NormalizeId(arxiv_id) ==
    LET a == IF Contains(arxiv_id, Str_arxiv_org)
             THEN SplitLast(arxiv_id, "/") ELSE arxiv_id
    IN  SplitFirst(a, "v")

\* a body that reports 0 citations for every answer other than 200
TryBodyZeroOnMissing(arxiv_id, net) ==
    IF net.kind = "exception" THEN Raised(net.exc)
    ELSE IF net.status = 200 /\ net.body = "object" /\ net.field = "int"
         THEN Returned(Some(net.count))
    ELSE Returned(Some(0))

\* lines 95-104: the body of the try block, given how the request ends
TryBody(arxiv_id, net) ==
    IF net.kind = "exception" THEN Raised(net.exc)
    ELSE IF net.status = 200
         THEN IF net.body = "not_json" THEN Raised("JSONDecodeError")
              ELSE IF net.body # "object" THEN Raised("AttributeError")
              ELSE IF net.field = "absent" THEN Returned(Some(0))
              ELSE IF net.field = "null" THEN Returned(None)
              ELSE Returned(Some(net.count))
    ELSE IF net.status = 404 THEN Returned(None)
    ELSE Returned(None)

\* the same function without its except clause
GetCitationCountNoExcept(arxiv_id, net) == TryBody(arxiv_id, net)

\* lines 83-107: try ... except Exception: return None
GetCitationCount(arxiv_id, net) ==
    LET r == TryBody(arxiv_id, net)
    IN  IF r.raised THEN Returned(None) ELSE r

-----------------------------------------------------------------------------
(* ArxivSearchEngine.search: the pieces of one loop iteration *)

\* relevance that grows with the position
RelevanceGrowing(idx, max_results) ==
    IF max_results > 0 THEN RatDiv(idx, max_results) ELSE Rat(0, 1)

\* the score without the guard against max_results = 0
RelevanceUnguarded(idx, max_results) ==
    RatSub(Rat(1, 1), RatDiv(idx, max_results))

\* a score that divides the position by a fixed page size of 2 instead of
\* the requested max_results
RelevanceByFixedPage(idx, max_results) ==
    IF max_results > 0 THEN RatSub(Rat(1, 1), RatDiv(idx, 2)) ELSE Rat(0, 1)

\* line 211
Relevance(idx, max_results) ==
    IF max_results > 0
    THEN RatSub(Rat(1, 1), RatDiv(idx, max_results))
    ELSE Rat(0, 1)

\* lines 226-229: the organization label of an e-mail domain
OrgName(domain) ==
    IF Contains(domain, Str_edu)
    THEN Title(Replace(SplitFirst(domain, "."), "-", " "))
    ELSE IF HasChar(domain, ".") THEN Upper(SplitFirst(domain, ".")) ELSE Upper(domain)

\* lines 223-231: the loop over the captured domains
RECURSIVE EmailAffiliations(_, _, _)
EmailAffiliations(emails, affiliations, seen_domains) ==
    IF emails = << >> THEN affiliations
    ELSE LET domain == Head(emails)
         IN  IF domain \notin seen_domains
             THEN EmailAffiliations(Tail(emails),
                                    Append(affiliations, OrgName(domain)),
                                    seen_domains \cup {domain})
             ELSE EmailAffiliations(Tail(emails), affiliations, seen_domains)

\* lines 234-237: the loop over the authors
RECURSIVE AuthorAffiliations(_, _)
AuthorAffiliations(authors, affiliations) ==
    IF authors = << >> THEN affiliations
    ELSE LET author == Head(authors)
         IN  IF IsSome(author.affiliation) /\ Get(author.affiliation) # << >>
                /\ ~InSeq(Get(author.affiliation), affiliations)
             THEN AuthorAffiliations(Tail(authors),
                                     Append(affiliations, Get(author.affiliation)))
             ELSE AuthorAffiliations(Tail(authors), affiliations)

\* lines 214-237 and 257: the affiliations of the Paper built from result
Affiliations(result) ==
    Take(AuthorAffiliations(result.authors,
                            EmailAffiliations(result.comment, << >>, {})), 3)

\* a loop that marks a paper without a count with -1
CitationOrMinusOne(ret) == IF IsNone(ret.value) THEN -1 ELSE Get(ret.value)

\* lines 241-242
CitationOrZero(ret) == IF IsNone(ret.value) THEN 0 ELSE Get(ret.value)

\* lines 247-258
Paper(result, citation_count, relevance, affiliations) ==
    [ title |-> result.title,
      authors |-> [i \in 1..Len(result.authors) |-> result.authors[i].name],
      url |-> result.entry_id,
      source |-> "arXiv",
      citation_count |-> citation_count,
      relevance_score |-> relevance,
      affiliations |-> affiliations ]

\* a loop that pauses only after an enrichment call that found the paper
IterationEventsSleepOnFound(ret) ==
    IF ~ret.raised /\ IsSome(ret.value) THEN << "enrich", "sleep" >> ELSE << "enrich" >>

\* lines 240-245: the enrichment call of one iteration and the time.sleep(0.1)
\* that follows its return, whatever it returned
IterationEvents(ret) ==
    IF ret.raised THEN << "enrich" >> ELSE << "enrich", "sleep" >>

\* lines 181-187
SortCriterion(sort_by) ==
    IF sort_by = "relevance" THEN "Relevance"
    ELSE IF sort_by = "submittedDate" THEN "SubmittedDate"
    ELSE IF sort_by = "lastUpdatedDate" THEN "LastUpdatedDate"
    ELSE "Relevance"

\* a criteria object that states the default cap instead of the requested one
RankingCriteriaDefaultCap(sort_by, max_results) ==
    [ source |-> "arXiv", sort_method |-> sort_by, max_results |-> 10,
      filters_applied |-> << "Query keyword matching in title/abstract" >>,
      description |-> << "Papers sorted by ", sort_by, ". arXiv relevance algorithm considers keyword frequency, position in title/abstract, and semantic similarity. Results limited to top ", 10, " papers." >> ]

\* lines 190-199
RankingCriteria(sort_by, max_results) ==
    [ source |-> "arXiv", sort_method |-> sort_by, max_results |-> max_results,
      filters_applied |-> << "Query keyword matching in title/abstract" >>,
      description |-> << "Papers sorted by ", sort_by, ". arXiv relevance algorithm considers keyword frequency, position in title/abstract, and semantic similarity. Results limited to top ", max_results, " papers." >> ]

-----------------------------------------------------------------------------
(* What a call hands to its caller: a value or an exception, never both *)

OkResult(p, c) == [ kind |-> "ok", papers |-> Some(p), criteria |-> Some(c), error |-> None ]
ErrResult(e) == [ kind |-> "error", papers |-> None, criteria |-> None, error |-> Some(e) ]

Error(o, t, m) == [ origin |-> o, type |-> t, message |-> m ]

\* what the arxiv client can raise while search.results() is iterated
PrimaryErrors ==
    { Error("primary", "HTTPError", << "Page request resulted in HTTP 503" >>),
      Error("primary", "UnexpectedEmptyPageError", << "Page of results was unexpectedly empty" >>) }

-----------------------------------------------------------------------------
(* SearchEngineFactory.get_engine *)

\* line 279: the exception class the factory raises for a source without an
\* engine (the error the design calls UnsupportedSourceError)
UnsupportedSourceError == "ValueError"

\* lines 270-275: the registered engines
Engines == { "arXiv" }

\* a factory that falls back to the arXiv engine
GetEngineDefaulting(source) ==
    [ ok |-> TRUE, engine |-> "arXiv", error |-> None ]

\* lines 268-281
GetEngine(source) ==
    IF source \in Engines
    THEN [ ok |-> TRUE, engine |-> source, error |-> None ]
    ELSE [ ok |-> FALSE, engine |-> "",
           error |-> Some(Error("factory", UnsupportedSourceError,
                                << "Search engine for source '", source,
                                   "' not implemented yet" >>)) ]

-----------------------------------------------------------------------------
(* search_papers and ArxivSearchEngine.search *)

Args(q, s, n, sb) == [ query |-> q, source |-> s, max_results |-> n, sort_by |-> sb ]

\* line 303: engine.search(query, max_results, sort_by)
EngineArgs(a) ==
    [ query |-> a.query, max_results |-> a.max_results, sort_by |-> a.sort_by ]

\* lines 202-206: arxiv.Search(query=..., max_results=..., sort_by=...)
PrimaryQuery(ea) ==
    [ query |-> ea.query, max_results |-> ea.max_results,
      sort_by |-> SortCriterion(ea.sort_by) ]

\* How many results the arxiv client yields at most for a query: max_results
\* of them, and for max_results = 0 a number that depends on the client
\* version (bounded here by yieldBound).
PrimaryLimit(q, yieldBound) ==
    IF q.max_results > 0 /\ q.max_results < yieldBound THEN q.max_results ELSE yieldBound

\* an engine that hands back what it has gathered when the primary source fails
EngineRaisePartial(p, c, e) ==
    [ kind |-> "error", papers |-> Some(p), criteria |-> c, error |-> Some(e) ]

\* line 209: an exception raised while search.results() is iterated leaves
\* search(); its locals are dropped
EngineRaise(p, c, e) == ErrResult(e)

\* line 261: return papers, criteria
EngineReturn(p, c) == OkResult(p, c)

\* a caller-facing function that reports every engine failure as the same error
SearchPapersWrapping(ret) ==
    IF ret.kind = "error"
    THEN ErrResult(Error("orchestrator", "RuntimeError", << "search failed" >>))
    ELSE ret

\* line 303: return engine.search(...); an exception passes through
SearchPapersResult(ret) == ret

\* str(e)
Str(e) == e.message

-----------------------------------------------------------------------------
(* app.py: perform_search *)

IsSpace(c) == c \in { " ", "\t", "\n" }

\* str.strip()
RECURSIVE LStrip(_)
LStrip(s) == IF s # << >> /\ IsSpace(Head(s)) THEN LStrip(Tail(s)) ELSE s
RECURSIVE RStrip(_)
RStrip(s) ==
    IF s # << >> /\ IsSpace(s[Len(s)]) THEN RStrip(SubSeq(s, 1, Len(s) - 1)) ELSE s
Strip(s) == LStrip(RStrip(s))

Q_empty == << >>
Q_blank == << " ", " " >>
Q_rag == << "r", "a", "g" >>
Q_padded == << " ", "a", "i" >>

\* what can be typed into the search box
UiQueries == { Q_empty, Q_blank, Q_rag, Q_padded }
\* app.py line 69: the values of the database toggle
UiDatabases == { "arXiv", "PubMed", "IEEE", "Google Scholar" }

EmptyQueryMessage == << "Please enter a search query" >>

\* the four reactive cells perform_search writes
Ui(r, c, b, e) == [ results |-> r, criteria |-> c, searching |-> b, error |-> e ]

\* a handler that also clears the previous results when it rejects the query
RejectEmptyClearing(ui) == Ui(<< >>, None, ui.searching, EmptyQueryMessage)

\* lines 218-220: the query is empty or blank
RejectEmpty(ui) == [ ui EXCEPT !.error = EmptyQueryMessage ]

\* lines 222-225
BeginSearch(ui) == Ui(<< >>, None, TRUE, << >>)

\* a handler that resets is_searching on the success path only (no finally)
AfterSearchNoFinally(ui, out) ==
    IF out.kind = "ok"
    THEN [ ui EXCEPT !.results = Get(out.papers), !.criteria = out.criteria,
                     !.searching = FALSE ]
    ELSE [ ui EXCEPT !.error = Str(Get(out.error)) ]

\* lines 239-245: the part of perform_search that follows the call of
\* search_papers, given what the call delivered
AfterSearch(ui, out) ==
    IF out.kind = "ok"
    THEN [ ui EXCEPT !.results = Get(out.papers), !.criteria = out.criteria,
                     !.searching = FALSE ]
    ELSE [ ui EXCEPT !.error = Str(Get(out.error)), !.searching = FALSE ]

-----------------------------------------------------------------------------
(* The state machine *)

\* no concurrent calls and no Paper construction are part of the behaviour
NoThreads == threads = << >> /\ buffers = << >>
NoConstruction == ctor_pc = "off" /\ ctor_in = None /\ ctor_out = None

Init ==
    /\ search_query = Q_empty
    /\ selected_database = "arXiv"
    /\ search_results = << >>
    /\ ranking_criteria = None
    /\ is_searching = FALSE
    /\ search_error = << >>
    /\ pc = "idle"
    /\ caller = "none"
    /\ args = None
    /\ engine_args = None
    /\ primary_query = None
    /\ criteria = None
    /\ papers = << >>
    /\ raws = << >>
    /\ enrich_log = << >>
    /\ events = << >>
    /\ engine_ret = None
    /\ outcome = None
    /\ enr_pc = "off"
    /\ enr_id = << >>
    /\ enr_net = NetNotFound
    /\ enr_ret = None
    /\ enr_queried = None
    /\ NoThreads
    /\ NoConstruction

CurrentUi == Ui(search_results, ranking_criteria, is_searching, search_error)

SetUi(ui) ==
    /\ search_results' = ui.results
    /\ ranking_criteria' = ui.criteria
    /\ is_searching' = ui.searching
    /\ search_error' = ui.error
    /\ UNCHANGED << search_query, selected_database >>

\* search_papers(a) is entered: lines 302-303 and, when the source has an
\* engine, lines 181-208 of search() up to the first request to the primary
\* source.  Returns with the factory's error otherwise.
Enter(a, who) ==
    LET eng == GetEngine(a.source)
    IN  /\ caller' = who
        /\ args' = Some(a)
        /\ raws' = << >>
        /\ enrich_log' = << >>
        /\ events' = << >>
        /\ papers' = << >>
        /\ engine_ret' = None
        /\ IF eng.ok
           THEN LET ea == EngineArgs(a)
                IN  /\ engine_args' = Some(ea)
                    /\ criteria' = Some(RankingCriteria(ea.sort_by, ea.max_results))
                    /\ primary_query' = Some(PrimaryQuery(ea))
                    /\ pc' = "loop"
                    /\ outcome' = None
           ELSE /\ engine_args' = None
                /\ criteria' = None
                /\ primary_query' = None
                /\ pc' = "idle"
                /\ outcome' = Some(SearchPapersResult(ErrResult(Get(eng.error))))

\* engine.search() ends with ret: search_papers hands it to its caller, and
\* perform_search, when it is the caller, runs to its end
Leave(ret) ==
    /\ engine_ret' = Some(ret)
    /\ outcome' = Some(SearchPapersResult(ret))
    /\ pc' = "idle"
    /\ papers' = << >>
    /\ criteria' = None
    /\ IF caller = "ui"
       THEN SetUi(AfterSearch(CurrentUi, SearchPapersResult(ret)))
       ELSE UNCHANGED uiVars

\* A program calls search_papers directly, once: the function keeps nothing
\* from one call to the next, so a behaviour is one call.
Call(queries, sources, sizes, sorts) ==
    /\ pc = "idle"
    /\ caller = "none"
    /\ \E q \in queries, s \in sources, n \in sizes, sb \in sorts :
           Enter(Args(q, s, n, sb), "direct")
    /\ UNCHANGED uiVars
    /\ UNCHANGED auxVars

\* One iteration of the for loop of search(), lines 209-259: the primary
\* source yields result, the enrichment request ends in net.
LoopBody(rawSet, netSet, yieldBound) ==
    /\ pc = "loop"
    /\ Len(papers) < PrimaryLimit(Get(primary_query), yieldBound)
    /\ \E result \in rawSet, net \in netSet :
        LET ea == Get(engine_args)
            idx == Len(papers)
            relevance == Relevance(idx, ea.max_results)
            affiliations == Affiliations(result)
            ret == GetCitationCount(result.entry_id, net)
            entry == [ id |-> result.entry_id, queried |-> NormalizeId(result.entry_id),
                       net |-> net, ret |-> ret ]
        IN  /\ raws' = Append(raws, result)
            /\ enrich_log' = Append(enrich_log, entry)
            /\ events' = events \o IterationEvents(ret)
            /\ IF ret.raised
               THEN /\ Leave(EngineRaise(papers, criteria,
                                         Error("enrichment", ret.exc, << ret.exc >>)))
               ELSE /\ papers' = Append(papers,
                                        Paper(result, CitationOrZero(ret), relevance,
                                              affiliations))
                    /\ UNCHANGED << pc, criteria, engine_ret, outcome >>
                    /\ UNCHANGED uiVars
    /\ UNCHANGED << caller, args, engine_args, primary_query >>
    /\ UNCHANGED auxVars

\* The primary source has no further result: line 261.
Exhausted ==
    /\ pc = "loop"
    /\ Leave(EngineReturn(papers, Get(criteria)))
    /\ UNCHANGED << caller, args, engine_args, primary_query, raws, enrich_log, events >>
    /\ UNCHANGED auxVars

\* The primary source fails, before or after any number of results.
PrimaryFail ==
    /\ pc = "loop"
    /\ \E e \in PrimaryErrors : Leave(EngineRaise(papers, criteria, e))
    /\ UNCHANGED << caller, args, engine_args, primary_query, raws, enrich_log, events >>
    /\ UNCHANGED auxVars

-----------------------------------------------------------------------------
(* Spec: programs calling search_papers with any arguments *)

Queries == { Q_rag, Q_empty }
Sources == { "arXiv", "arxiv", "UnknownSource" }
SortBys == { "relevance", "submittedDate", "lastUpdatedDate", "citations", "newest" }

Next ==
    \/ Call(Queries, Sources, 0..MaxResults, SortBys)
    \/ LoopBody(RawResults, NetSearch, MaxResults)
    \/ Exhausted
    \/ PrimaryFail

Spec == Init /\ [][Next]_vars

-----------------------------------------------------------------------------
(* SpecOutcomes: relevance searches whose enrichment calls end in every way *)

NextOutcomes ==
    \/ Call({Q_rag}, {"arXiv"}, 0..MaxResults, {"relevance"})
    \/ LoopBody({RawC}, NetOutcomes, MaxResults)
    \/ Exhausted
    \/ PrimaryFail

SpecOutcomes == Init /\ [][NextOutcomes]_vars

-----------------------------------------------------------------------------
(* SpecCitations: calls that ask for the citation order, max_results > 0 *)

NextCitations ==
    \/ Call(Queries, {"arXiv"}, 1..MaxResults, {"citations"})
    \/ LoopBody(RawResults, NetSearch, MaxResults)
    \/ Exhausted
    \/ PrimaryFail

SpecCitations == Init /\ [][NextCitations]_vars

-----------------------------------------------------------------------------
(* SpecUI: the user types, picks a database and presses the search button *)

\* app.py lines 73-77: InputText on_value
SetQuery ==
    /\ pc = "idle"
    /\ \E q \in UiQueries : search_query' = q
    /\ UNCHANGED << selected_database, search_results, ranking_criteria,
                    is_searching, search_error >>
    /\ UNCHANGED callVars
    /\ UNCHANGED auxVars

\* app.py lines 66-70: ToggleButtonsSingle on_value
SelectDatabase ==
    /\ pc = "idle"
    /\ \E db \in UiDatabases : selected_database' = db
    /\ UNCHANGED << search_query, search_results, ranking_criteria,
                    is_searching, search_error >>
    /\ UNCHANGED callVars
    /\ UNCHANGED auxVars

\* app.py lines 216-245: perform_search, up to the first request to the
\* primary source; to its end when the query is rejected or the source has no
\* engine
PerformSearch ==
    /\ pc = "idle"
    /\ IF Strip(search_query) = << >>
       THEN /\ SetUi(RejectEmpty(CurrentUi))
            /\ UNCHANGED callVars
       ELSE LET a == Args(search_query, selected_database, 20, "relevance")
            IN  /\ Enter(a, "ui")
                /\ IF GetEngine(a.source).ok
                   THEN SetUi(BeginSearch(CurrentUi))
                   ELSE SetUi(AfterSearch(BeginSearch(CurrentUi),
                                          SearchPapersResult(
                                              ErrResult(Get(GetEngine(a.source).error)))))
    /\ UNCHANGED auxVars

NetUi == { NetFound(1), NetNotFound, NetTimeout }

NextUI ==
    \/ SetQuery
    \/ SelectDatabase
    \/ PerformSearch
    \/ LoopBody(RawResults, NetUi, MaxResults)
    \/ Exhausted
    \/ PrimaryFail

SpecUI == Init /\ [][NextUI]_vars

-----------------------------------------------------------------------------
(* SpecCaller: the page, and a program that calls search_papers itself with
   an empty or blank query *)

BlankQueries == { Q_empty, Q_blank }

NextCaller ==
    \/ SetQuery
    \/ SelectDatabase
    \/ PerformSearch
    \/ Call(BlankQueries, {"arXiv"}, {1}, {"relevance"})
    \/ LoopBody({RawC}, {NetFound(1), NetNotFound}, MaxResults)
    \/ Exhausted
    \/ PrimaryFail

SpecCaller == Init /\ [][NextCaller]_vars

-----------------------------------------------------------------------------
(* SpecUIFair: the page, where a search that has started runs to its end: the
   iteration over the primary source's results is finite and every request
   returns or times out *)

NextUIFair ==
    \/ SetQuery
    \/ SelectDatabase
    \/ PerformSearch
    \/ LoopBody({RawC}, {NetFound(1), NetTimeout}, MaxResults)
    \/ Exhausted
    \/ PrimaryFail

SpecUIFair == Init /\ [][NextUIFair]_vars /\ WF_vars(Exhausted)

-----------------------------------------------------------------------------
(* SpecRelevance: searches with larger max_results over one kind of result *)

NextRelevance ==
    \/ Call({Q_rag}, {"arXiv"}, 0..MaxRelResults, {"relevance", "citations"})
    \/ LoopBody({RawA, RawC}, {NetNotFound}, MaxRelResults)
    \/ Exhausted
    \/ PrimaryFail

SpecRelevance == Init /\ [][NextRelevance]_vars

-----------------------------------------------------------------------------
(* SpecEnrich: get_citation_count_from_semantic_scholar on its own *)

InitEnrich ==
    /\ search_query = Q_empty
    /\ selected_database = "arXiv"
    /\ search_results = << >>
    /\ ranking_criteria = None
    /\ is_searching = FALSE
    /\ search_error = << >>
    /\ pc = "idle"
    /\ caller = "none"
    /\ args = None
    /\ engine_args = None
    /\ primary_query = None
    /\ criteria = None
    /\ papers = << >>
    /\ raws = << >>
    /\ enrich_log = << >>
    /\ events = << >>
    /\ engine_ret = None
    /\ outcome = None
    /\ enr_pc = "ready"
    /\ enr_id \in Identifiers
    /\ enr_net \in NetOutcomes
    /\ enr_ret = None
    /\ enr_queried = None
    /\ NoThreads
    /\ NoConstruction

\* the call returns or raises
EnrichCall ==
    /\ enr_pc = "ready"
    /\ enr_ret' = Some(GetCitationCount(enr_id, enr_net))
    /\ enr_queried' = Some(NormalizeId(enr_id))
    /\ enr_pc' = "done"
    /\ UNCHANGED << enr_id, enr_net >>
    /\ UNCHANGED << conVars, ctorVars >>
    /\ UNCHANGED uiVars
    /\ UNCHANGED callVars

NextEnrich == EnrichCall

SpecEnrich == InitEnrich /\ [][NextEnrich]_vars

-----------------------------------------------------------------------------
(* SpecPaper: one construction of a Paper on its own *)

\* the page as loaded, no call of search_papers, no call of the enricher
PageAsLoaded ==
    /\ search_query = Q_empty
    /\ selected_database = "arXiv"
    /\ search_results = << >>
    /\ ranking_criteria = None
    /\ is_searching = FALSE
    /\ search_error = << >>

NoCall ==
    /\ pc = "idle"
    /\ caller = "none"
    /\ args = None
    /\ engine_args = None
    /\ primary_query = None
    /\ criteria = None
    /\ papers = << >>
    /\ raws = << >>
    /\ enrich_log = << >>
    /\ events = << >>
    /\ engine_ret = None
    /\ outcome = None

NoEnricherCall ==
    /\ enr_pc = "off"
    /\ enr_id = << >>
    /\ enr_net = NetNotFound
    /\ enr_ret = None
    /\ enr_queried = None

\* The keyword arguments of Paper(...).  The six fields without a default are
\* always given; for the other four None says the argument is omitted and
\* Some(v) that v is passed.  affiliations can be passed as None or as a
\* list: Some(None) and Some(Some(list)).
PaperArgs ==
    [ title : { "Test Paper", "Test Title" },
      authors : { << >>, << "A", "B" >> },
      abstract : { "Test abstract" },
      published_date : { "2023-01-01" },
      url : { "http://test.com" },
      source : { "arXiv" },
      pdf_url : { None, Some(""), Some("http://test.com/pdf") },
      citation_count : { None, Some(0), Some(42) },
      relevance_score : { None, Some(Rat(9, 10)) },
      affiliations : { None, Some(None), Some(Some(<< >>)), Some(Some(<< "UiT" >>)) } ]

\* lines 39-48: the generated __init__ stores each argument, or the field's
\* default when the argument is omitted.  The affiliations attribute holds
\* None or Some(list).
DataclassInit(kw) ==
    [ title |-> kw.title,
      authors |-> kw.authors,
      abstract |-> kw.abstract,
      published_date |-> kw.published_date,
      url |-> kw.url,
      source |-> kw.source,
      pdf_url |-> IF IsSome(kw.pdf_url) THEN Get(kw.pdf_url) ELSE "",
      citation_count |-> IF IsSome(kw.citation_count) THEN Get(kw.citation_count) ELSE 0,
      relevance_score |-> IF IsSome(kw.relevance_score)
                          THEN Get(kw.relevance_score) ELSE Rat(0, 1),
      affiliations |-> IF IsSome(kw.affiliations) THEN Get(kw.affiliations) ELSE None ]

\* lines 50-53: __post_init__
PostInit(self) ==
    IF IsNone(self.affiliations) THEN [ self EXCEPT !.affiliations = Some(<< >>) ] ELSE self

\* a dataclass without the __post_init__ hook
NewPaperNoPostInit(kw) == DataclassInit(kw)

\* lines 36-53: Paper(**kw)
NewPaper(kw) == PostInit(DataclassInit(kw))

InitPaper ==
    /\ PageAsLoaded
    /\ NoCall
    /\ NoEnricherCall
    /\ NoThreads
    /\ ctor_pc = "ready"
    /\ ctor_in \in { Some(kw) : kw \in PaperArgs }
    /\ ctor_out = None

Construct ==
    /\ ctor_pc = "ready"
    /\ ctor_out' = Some(NewPaper(Get(ctor_in)))
    /\ ctor_pc' = "done"
    /\ UNCHANGED ctor_in
    /\ UNCHANGED << uiVars, callVars, enrVars, conVars >>

NextPaper == Construct

SpecPaper == InitPaper /\ [][NextPaper]_vars

-----------------------------------------------------------------------------
(* SpecConcurrent: two threads call search_papers at the same time.  Each
   call has its own frame (arguments, engine, criteria, position in the
   primary source's results); the steps of the two calls interleave at the
   requests to the primary and the enrichment source. *)

Threads == { 1, 2 }

IdleFrame ==
    [ pc |-> "idle", args |-> None, engine |-> None, buf |-> None, criteria |-> None,
      raws |-> << >>, nets |-> << >>, fault |-> None, outcome |-> None ]

\* the arguments the calls are made with
ConcurrentArgs ==
    { Args(Q_rag, "arXiv", MaxResults, "relevance"),
      Args(Q_empty, "arXiv", 1, "citations"),
      Args(Q_rag, "PubMed", MaxResults, "relevance") }

ConcurrentRaws == { RawA, RawC }
ConcurrentNets == { NetFound(1), NetNotFound }

\* lines 270-275: get_engine builds its dictionary of engines, and the
\* ArxivSearchEngine in it, anew in every call
EngineOf(t) == t

\* a result list held at module level, the same for every call
BufferShared(t) == 1

\* line 208: papers = [] is a list of the call's own
BufferOf(t) == t

InitConcurrent ==
    /\ PageAsLoaded
    /\ NoCall
    /\ NoEnricherCall
    /\ NoConstruction
    /\ threads = [t \in Threads |-> IdleFrame]
    /\ buffers = [b \in Threads |-> << >>]

\* thread t calls search_papers(a): lines 302-303 and lines 181-208
ThreadCall(t) ==
    /\ threads[t].pc = "idle"
    /\ \E a \in ConcurrentArgs :
           /\ \A u \in Threads \ {t} : threads[u].args # Some(a)
           /\ LET eng == GetEngine(a.source)
              IN  IF eng.ok
                  THEN /\ threads' = [threads EXCEPT ![t] =
                                         [ IdleFrame EXCEPT
                                             !.pc = "loop",
                                             !.args = Some(a),
                                             !.engine = Some(EngineOf(t)),
                                             !.buf = Some(BufferOf(t)),
                                             !.criteria = Some(RankingCriteria(
                                                              EngineArgs(a).sort_by,
                                                              EngineArgs(a).max_results)) ]]
                       /\ buffers' = [buffers EXCEPT ![BufferOf(t)] = << >>]
                  ELSE /\ threads' = [threads EXCEPT ![t] =
                                         [ IdleFrame EXCEPT
                                             !.pc = "done",
                                             !.args = Some(a),
                                             !.outcome = Some(SearchPapersResult(
                                                             ErrResult(Get(eng.error)))) ]]
                       /\ UNCHANGED buffers
    /\ UNCHANGED << uiVars, callVars, enrVars, ctorVars >>

\* one iteration of the loop of thread t's call, lines 209-259: idx is the
\* position of result among the results yielded to this call
ThreadLoopBody(t) ==
    LET f == threads[t]
    IN  /\ f.pc = "loop"
        /\ Len(f.raws) < PrimaryLimit(PrimaryQuery(EngineArgs(Get(f.args))), MaxResults)
        /\ \E result \in ConcurrentRaws, net \in ConcurrentNets :
               LET a == Get(f.args)
                   b == Get(f.buf)
                   idx == Len(f.raws)
                   ret == GetCitationCount(result.entry_id, net)
                   g == [ f EXCEPT !.raws = Append(f.raws, result),
                                   !.nets = Append(f.nets, net) ]
               IN  IF ret.raised
                   THEN LET e == Error("enrichment", ret.exc, << ret.exc >>)
                        IN  /\ threads' = [threads EXCEPT ![t] =
                                              [ g EXCEPT
                                                  !.pc = "done",
                                                  !.fault = Some(e),
                                                  !.outcome = Some(SearchPapersResult(
                                                      EngineRaise(buffers[b], f.criteria, e))) ]]
                            /\ UNCHANGED buffers
                   ELSE /\ threads' = [threads EXCEPT ![t] = g]
                        /\ buffers' = [buffers EXCEPT ![b] =
                                          Append(buffers[b],
                                                 Paper(result, CitationOrZero(ret),
                                                       Relevance(idx, a.max_results),
                                                       Affiliations(result)))]
        /\ UNCHANGED << uiVars, callVars, enrVars, ctorVars >>

\* line 261: thread t's call returns its list and its criteria
ThreadExhausted(t) ==
    LET f == threads[t]
    IN  /\ f.pc = "loop"
        /\ threads' = [threads EXCEPT ![t] =
                          [ f EXCEPT
                              !.pc = "done",
                              !.outcome = Some(SearchPapersResult(
                                  EngineReturn(buffers[Get(f.buf)], Get(f.criteria)))) ]]
        /\ UNCHANGED buffers
        /\ UNCHANGED << uiVars, callVars, enrVars, ctorVars >>

\* the primary source fails for thread t's call
ThreadPrimaryFail(t) ==
    LET f == threads[t]
    IN  /\ f.pc = "loop"
        /\ \E e \in PrimaryErrors :
               threads' = [threads EXCEPT ![t] =
                             [ f EXCEPT
                                 !.pc = "done",
                                 !.fault = Some(e),
                                 !.outcome = Some(SearchPapersResult(
                                     EngineRaise(buffers[Get(f.buf)], f.criteria, e))) ]]
        /\ UNCHANGED buffers
        /\ UNCHANGED << uiVars, callVars, enrVars, ctorVars >>

NextConcurrent ==
    \E t \in Threads :
        \/ ThreadCall(t)
        \/ ThreadLoopBody(t)
        \/ ThreadExhausted(t)
        \/ ThreadPrimaryFail(t)

SpecConcurrent == InitConcurrent /\ [][NextConcurrent]_vars

-----------------------------------------------------------------------------
(* Properties *)

\* the call of search_papers has ended
Finished == pc = "idle" /\ IsSome(outcome)
FinishedOk == Finished /\ Get(outcome).kind = "ok"
FinishedError == Finished /\ Get(outcome).kind = "error"
\* the Paper list the caller received
ReturnedPapers == Get(Get(outcome).papers)
\* the Papers built so far: the list under construction, or the list returned
Built == IF FinishedOk THEN ReturnedPapers ELSE papers

\* the enrichment source answered with a record
IsFound(net) == net.kind = "response" /\ net.status = 200 /\ net.body = "object"

SortedByCitationsDesc(ps) ==
    \A i \in 1..(Len(ps) - 1) : ps[i].citation_count >= ps[i+1].citation_count

\* C1: when search_papers is called with sort_by = "citations", the returned
\* list is ordered by citation_count descending and is no longer than
\* max_results.
C1_CitationsSortedAndCapped ==
    (FinishedOk /\ Get(args).sort_by = "citations")
        => /\ SortedByCitationsDesc(ReturnedPapers)
           /\ Len(ReturnedPapers) <= Get(args).max_results

\* C2: a result whose enrichment was not found or failed gets citation_count
\* 0, stays in the returned list, and no enrichment outcome makes
\* search_papers raise.
C2_EnrichmentFailureAbsorbed ==
    /\ Len(Built) <= Len(enrich_log)
    /\ \A i \in 1..Len(Built) :
           /\ Built[i].url = enrich_log[i].id
           /\ ~IsFound(enrich_log[i].net) => Built[i].citation_count = 0
    /\ FinishedOk => Len(ReturnedPapers) = Len(enrich_log)
    /\ FinishedError => Get(Get(outcome).error).origin # "enrichment"

C2_Witness ==
    /\ FinishedOk
    /\ Len(ReturnedPapers) = 2
    /\ enrich_log[1].net = NetTimeout
    /\ enrich_log[2].net = NetNotFound
    /\ ReturnedPapers[1].citation_count = 0

\* C3: for a source without a registered engine search_papers fails with the
\* factory's unsupported-source error, whose message names the source; no
\* engine search, primary-source request or enrichment request is made.
C3_UnsupportedSourceFails ==
    (IsSome(args) /\ Get(args).source # "arXiv")
        => /\ FinishedError
           /\ Get(Get(outcome).error).origin = "factory"
           /\ Get(Get(outcome).error).type = UnsupportedSourceError
           /\ InSeq(Get(args).source, Get(Get(outcome).error).message)
           /\ IsNone(engine_args)
           /\ IsNone(engine_ret)
           /\ IsNone(primary_query)
           /\ raws = << >>
           /\ enrich_log = << >>

C3_Witness ==
    /\ FinishedError
    /\ Get(args).source = "UnknownSource"
    /\ Get(Get(outcome).error).message =
           << "Search engine for source '", "UnknownSource", "' not implemented yet" >>

\* C4: every Paper has at most 3 affiliations and no affiliation twice.
C4_AffiliationsBoundedUnique ==
    \A i \in 1..Len(Built) :
        /\ Len(Built[i].affiliations) <= 3
        /\ NoDuplicates(Built[i].affiliations)

\* C5: with max_results > 0 and sort_by "relevance" or "citations", the
\* relevance_score does not increase from one position to the next.
C5_RelevanceNonIncreasing ==
    (IsSome(args) /\ Get(args).max_results > 0
        /\ Get(args).sort_by \in { "relevance", "citations" })
        => \A i \in 1..(Len(Built) - 1) :
               RatLeq(Built[i+1].relevance_score, Built[i].relevance_score)

C5_Witness ==
    /\ FinishedOk
    /\ Get(args).sort_by = "citations"
    /\ Get(args).max_results = 3
    /\ Len(ReturnedPapers) = 3

C6_ZeroCase ==
    /\ FinishedOk
    /\ Get(args).max_results = 0
    /\ Len(ReturnedPapers) >= 2

\* C7: the RankingCriteria of a successful call states the requested source
\* and the requested max_results.
C7_CriteriaEchoRequest ==
    FinishedOk
        => /\ Get(Get(outcome).criteria).source = Get(args).source
           /\ Get(Get(outcome).criteria).max_results = Get(args).max_results

C7_Witness ==
    /\ FinishedOk
    /\ Get(args).max_results = 2
    /\ Get(args).sort_by = "newest"
    /\ Get(Get(outcome).criteria).max_results = 2

\* C8: a call ends either with a Paper list and a criteria object and no
\* error, or with an error and neither of the two; after a failed search the
\* page holds no Paper list and no criteria.
C8_AllOrNothing ==
    Finished
        => LET o == Get(outcome)
           IN  /\ \/ /\ o.kind = "ok"
                     /\ IsSome(o.papers) /\ IsSome(o.criteria) /\ IsNone(o.error)
                  \/ /\ o.kind = "error"
                     /\ IsNone(o.papers) /\ IsNone(o.criteria) /\ IsSome(o.error)
               /\ (caller = "ui" /\ o.kind = "error")
                      => search_results = << >> /\ IsNone(ranking_criteria)

C8_Witness ==
    /\ FinishedError
    /\ caller = "ui"
    /\ Get(Get(outcome).error).origin = "primary"
    /\ Len(enrich_log) = 2
    /\ search_error # << >>

\* C9: search_papers hands its arguments to the engine unchanged and hands
\* the engine's result, or the factory's or the engine's error, to its
\* caller unchanged.
C9_PureDelegation ==
    /\ IsSome(engine_args)
           => Get(engine_args) = [ query |-> Get(args).query,
                                   max_results |-> Get(args).max_results,
                                   sort_by |-> Get(args).sort_by ]
    /\ IsSome(engine_ret) => outcome = engine_ret
    /\ (Finished /\ IsNone(engine_ret))
           => /\ Get(outcome).kind = "error"
              /\ Get(outcome).error = GetEngine(Get(args).source).error

C9_Witness ==
    /\ FinishedError
    /\ Get(Get(outcome).error).type = "HTTPError"
    /\ Get(args).sort_by = "submittedDate"
    /\ Get(args).query = Q_empty
    /\ Len(raws) = 1

\* C10: the enricher never raises; it returns a count only for a 200 answer
\* holding a record (0 when the count is absent) and None for 404, any other
\* status, a timeout, a malformed answer or any other exception.
C10_EnricherTotal ==
    enr_pc = "done"
        => LET r == Get(enr_ret)
           IN  /\ ~r.raised
               /\ IsSome(r.value) => IsFound(enr_net)
               /\ ~IsFound(enr_net) => IsNone(r.value)
               /\ (IsFound(enr_net) /\ enr_net.field = "int")
                      => r.value = Some(enr_net.count)
               /\ (IsFound(enr_net) /\ enr_net.field = "absent") => r.value = Some(0)

C10_Witness ==
    /\ enr_pc = "done"
    /\ enr_net = NetTimeout
    /\ enr_id = Id_old_url
    /\ IsNone(Get(enr_ret).value)

\* C12: when sort_by is "citations" the criteria's filters_applied holds a
\* description of the citation sort, so it differs from the filters_applied
\* produced for "relevance" with the same query and max_results.
C12_CitationFilterStated ==
    (FinishedOk /\ Get(args).sort_by = "citations")
        => Get(Get(outcome).criteria).filters_applied
               # RankingCriteria("relevance", Get(args).max_results).filters_applied

Digits == {"0","1","2","3","4","5","6","7","8","9"}

\* s without a trailing version suffix "v" digit+ ; s itself when it has none
WithoutVersionSuffix(s) ==
    IF \E i \in 1..(Len(s) - 1) :
           s[i] = "v" /\ \A j \in (i+1)..Len(s) : s[j] \in Digits
    THEN SubSeq(s, 1, (CHOOSE i \in 1..(Len(s) - 1) :
                          s[i] = "v" /\ \A j \in (i+1)..Len(s) : s[j] \in Digits) - 1)
    ELSE s

\* the identifier the request is to be made for: the trailing path segment of
\* a URL, or the identifier as given, less its version suffix and nothing else
BareIdentifier(arxiv_id) ==
    WithoutVersionSuffix(IF Contains(arxiv_id, Str_arxiv_org)
                         THEN SplitLast(arxiv_id, "/") ELSE arxiv_id)

\* C19: the id the enricher queries is the bare identifier (trailing path
\* segment of a URL, version suffix vN removed and nothing else), also for
\* identifiers holding the letter v elsewhere; normalizing the queried id
\* again leaves it unchanged.
C19_IdentifierNormalized ==
    enr_pc = "done"
        => /\ Get(enr_queried) = BareIdentifier(enr_id)
           /\ NormalizeId(Get(enr_queried)) = Get(enr_queried)

\* C18: between any two consecutive enrichment calls of one search there is a
\* delay step, whatever the earlier call's outcome (found, not found, error).
C18_DelayBetweenEnrichments ==
    /\ \A i, j \in 1..Len(events) :
           (i < j /\ events[i] = "enrich" /\ events[j] = "enrich")
               => \E k \in (i+1)..(j-1) : events[k] = "sleep"
    /\ Len(SelectSeq(events, LAMBDA e : e = "enrich")) = Len(enrich_log)

C18_Witness ==
    /\ Len(enrich_log) = 2
    /\ enrich_log[1].net = NetTimeout
    /\ events = << "enrich", "sleep", "enrich", "sleep" >>

\* C14: every Paper built carries a citation_count that is an integer >= 0,
\* for every way the enrichment call can end: the supplied count when the
\* paper is found with one, and 0 when the count is absent or null, the
\* paper is not found, or the call fails.
C14_CitationCountNonNegative ==
    \A i \in 1..Len(Built) :
        LET net == enrich_log[i].net
            c == Built[i].citation_count
        IN  /\ c \in Nat
            /\ (IsFound(net) /\ net.field = "int") => c = net.count
            /\ ~(IsFound(net) /\ net.field = "int") => c = 0

C14_Witness ==
    /\ FinishedOk
    /\ Len(ReturnedPapers) = 2
    /\ enrich_log[1].net = NetFoundNull
    /\ enrich_log[2].net = NetServerError
    /\ ReturnedPapers[1].citation_count = 0

\* C15: under every sort mode other than "citations" the results are enriched
\* and emitted in the primary source's order (the i-th enrichment call is for
\* the i-th result, the i-th Paper is built from the i-th result, none is
\* dropped, duplicated or reordered); under "citations" the returned order is
\* by descending citation_count, produced once the whole batch is enriched.
C15_OrderOfEnrichmentAndEmission ==
    IF IsSome(args) /\ Get(args).sort_by = "citations"
    THEN FinishedOk
             => /\ Len(enrich_log) = Len(raws)
                /\ Len(ReturnedPapers) = Len(raws)
                /\ SortedByCitationsDesc(ReturnedPapers)
    ELSE /\ Len(enrich_log) = Len(raws)
         /\ \A i \in 1..Len(raws) : enrich_log[i].id = raws[i].entry_id
         /\ Len(Built) <= Len(raws)
         /\ FinishedOk => Len(Built) = Len(raws)
         /\ \A i \in 1..Len(Built) :
                /\ Built[i].title = raws[i].title
                /\ Built[i].url = raws[i].entry_id

\* the sort_by name of the order the returned list is in: the order of the
\* primary source under the criterion it was queried with (nothing re-sorts)
EffectiveSortMethod ==
    LET c == Get(primary_query).sort_by
    IN  IF c = "SubmittedDate" THEN "submittedDate"
        ELSE IF c = "LastUpdatedDate" THEN "lastUpdatedDate"
        ELSE "relevance"

\* C16: for every sort_by passed, recognized or not, the sort method stated
\* in the criteria (sort_method and description) is the sort applied to
\* produce the returned list, and the max_results cap stated in the
\* description is the cap applied to the list.
C16_CriteriaStateEffectiveSort ==
    FinishedOk
        => LET c == Get(Get(outcome).criteria)
           IN  /\ c.sort_method = EffectiveSortMethod
               /\ c.description[2] = EffectiveSortMethod
               /\ c.description[4] = Get(primary_query).max_results
               /\ Len(ReturnedPapers) <= c.description[4]

Aff_Stanford == <<"S","t","a","n","f","o","r","d">>

\* the affiliations the enrichment source's record holds for a paper it finds
\* (authors[].affiliations[] of the record; none when it has no record)
EnrichmentSourceAffiliations(net) == IF IsFound(net) THEN << Aff_Stanford >> ELSE << >>

\* s without the entries equal to an earlier entry
RECURSIVE Deduplicated(_, _)
Deduplicated(s, acc) ==
    IF s = << >> THEN acc
    ELSE Deduplicated(Tail(s), IF InSeq(Head(s), acc) THEN acc ELSE Append(acc, Head(s)))

AuthorAttributes(authors) ==
    LET given == SelectSeq(authors, LAMBDA a : IsSome(a.affiliation) /\ Get(a.affiliation) # << >>)
    IN  [i \in 1..Len(given) |-> Get(given[i].affiliation)]

\* C17: a Paper's affiliations are the first 3 entries of the e-mail derived
\* labels, then the authors' affiliation attributes, then the affiliations
\* returned by the enrichment source, entries equal to an earlier one dropped;
\* so an affiliation only the enrichment source supplies is on the Paper
\* whenever fewer than 3 precede it.
C17_AffiliationsMergeEnrichment ==
    \A i \in 1..Len(Built) :
        LET labels == [k \in 1..Len(raws[i].comment) |-> OrgName(raws[i].comment[k])]
            merged == Deduplicated(labels \o AuthorAttributes(raws[i].authors)
                                       \o EnrichmentSourceAffiliations(enrich_log[i].net),
                                   << >>)
        IN  Built[i].affiliations = Take(merged, 3)

\* C20: with an empty or whitespace-only query perform_search sets
\* search_error to the message and returns: search_papers is not invoked (no
\* request to the primary or the enrichment source) and search_results,
\* ranking_criteria and is_searching stay as they were.  The engine itself
\* hands whatever query it receives, empty ones too, to the primary source.
C20_EmptyQueryRejectedByCaller ==
    /\ [][ (pc = "idle" /\ Strip(search_query) = << >>)
               => /\ search_results' = search_results
                  /\ ranking_criteria' = ranking_criteria
                  /\ is_searching' = is_searching
                  /\ search_error' \in { search_error, EmptyQueryMessage }
                  /\ (callVars' # callVars) => caller' = "direct"
                  /\ (search_error' # search_error) => callVars' = callVars ]_vars
    /\ [](IsSome(args) /\ GetEngine(Get(args).source).ok
              => /\ IsSome(primary_query)
                 /\ Get(primary_query).query = Get(args).query)
    /\ [](caller = "ui" => Strip(Get(args).query) # << >>)

C20_Witness ==
    /\ pc = "idle"
    /\ search_query = Q_blank
    /\ search_error = EmptyQueryMessage
    /\ search_results # << >>
    /\ IsSome(ranking_criteria)
    /\ ~is_searching

\* C13: a constructed Paper holds every supplied field unchanged; a field
\* that is not supplied has its default: affiliations is the empty list
\* (never None) both when omitted and when passed as None, citation_count
\* is 0, relevance_score is 0.0 and pdf_url is "".
C13_PaperFieldsAndDefaults ==
    ctor_pc = "done"
        => LET kw == Get(ctor_in)
               p == Get(ctor_out)
           IN  /\ p.title = kw.title
               /\ p.authors = kw.authors
               /\ p.abstract = kw.abstract
               /\ p.published_date = kw.published_date
               /\ p.url = kw.url
               /\ p.source = kw.source
               /\ p.pdf_url = (IF kw.pdf_url = None THEN "" ELSE Get(kw.pdf_url))
               /\ p.citation_count
                      = (IF kw.citation_count = None THEN 0 ELSE Get(kw.citation_count))
               /\ RatEq(p.relevance_score,
                        IF kw.relevance_score = None
                        THEN Rat(0, 1) ELSE Get(kw.relevance_score))
               /\ IsSome(p.affiliations)
               /\ (kw.affiliations \in { None, Some(None) })
                      => p.affiliations = Some(<< >>)
               /\ (kw.affiliations \notin { None, Some(None) })
                      => p.affiliations = Get(kw.affiliations)

C13_Witness ==
    /\ ctor_pc = "done"
    /\ Get(ctor_in).affiliations = Some(None)
    /\ Get(ctor_in).citation_count = None
    /\ Get(ctor_in).pdf_url = Some("http://test.com/pdf")
    /\ Get(ctor_out).affiliations = Some(<< >>)
    /\ Get(ctor_out).pdf_url = "http://test.com/pdf"

\* the Papers a call with frame f builds when it runs alone and the two
\* sources answer as they answered this call
PapersAlone(f) ==
    [ i \in 1..Len(f.raws) |->
        Paper(f.raws[i],
              CitationOrZero(GetCitationCount(f.raws[i].entry_id, f.nets[i])),
              Relevance(i - 1, Get(f.args).max_results),
              Affiliations(f.raws[i])) ]

\* what that call hands to its caller
ResultAlone(f) ==
    LET a == Get(f.args)
        eng == GetEngine(a.source)
    IN  IF ~eng.ok THEN ErrResult(Get(eng.error))
        ELSE IF IsSome(f.fault) THEN ErrResult(Get(f.fault))
        ELSE OkResult(PapersAlone(f), RankingCriteria(a.sort_by, a.max_results))

\* C11: calls of search_papers running at the same time with different
\* arguments share nothing: in every interleaving each call works on an
\* engine and a result list of its own, its list holds the Papers built from
\* its own results only, and it returns what it would return when run alone
\* against the same answers of the two sources.
C11_ConcurrentCallsIsolated ==
    /\ \A t, u \in Threads :
           (t # u /\ threads[t].pc = "loop" /\ threads[u].pc = "loop")
               => /\ threads[t].engine # threads[u].engine
                  /\ threads[t].buf # threads[u].buf
    /\ \A t \in Threads :
           LET f == threads[t]
           IN  /\ f.pc = "loop" => buffers[Get(f.buf)] = PapersAlone(f)
               /\ f.pc = "done" => f.outcome = Some(ResultAlone(f))

C11_Witness ==
    /\ threads[1].pc = "done"
    /\ threads[2].pc = "done"
    /\ Get(threads[1].outcome).kind = "ok"
    /\ Get(threads[2].outcome).kind = "ok"
    /\ Len(Get(Get(threads[1].outcome).papers)) = 2
    /\ Len(Get(Get(threads[2].outcome).papers)) = 1
    /\ Get(threads[1].args).sort_by = "relevance"
    /\ Get(threads[2].args).sort_by = "citations"
    /\ Get(Get(threads[1].outcome).papers)[1].title
           # Get(Get(threads[2].outcome).papers)[1].title

C21_FullPage ==
    /\ FinishedOk
    /\ Get(args).max_results = 3
    /\ Len(ReturnedPapers) = 3
    /\ RatEq(ReturnedPapers[1].relevance_score, Rat(1, 1))
    /\ RatEq(ReturnedPapers[3].relevance_score, Rat(1, 3))

\* C22: whenever perform_search has returned, is_searching is False, whether
\* the query was rejected, the search succeeded or it raised; is_searching is
\* True only while a search with a non-blank query is running, and a running
\* search ends, so the page is never left in the searching state.
C22_SearchingFlagReset ==
    /\ [](pc = "idle" => ~is_searching)
    /\ [](is_searching => (pc = "loop" /\ caller = "ui"
                               /\ Strip(Get(args).query) # << >>))
    /\ (is_searching ~> ~is_searching)

C22_Witness ==
    /\ pc = "idle"
    /\ caller = "ui"
    /\ FinishedError
    /\ Get(Get(outcome).error).origin = "primary"
    /\ search_error = Str(Get(Get(outcome).error))
    /\ ~is_searching

\* C23: on the page, after any sequence of searches, whenever search_error
\* is non-empty, search_results is empty and ranking_criteria is None: an
\* error message and the results of an earlier search are never held together.
C23_ErrorExcludesResults ==
    search_error # << >>
        => /\ search_results = << >>
           /\ IsNone(ranking_criteria)

====
